---------------------------- MODULE Spec2Model ----------------------------
(***************************************************************************)
(* Model of the sorted merge-join of two delimited files (csv/merge.rs)    *)
(* and of the deduplication handlers that receive its rows                 *)
(* (csv/deduplicate.rs).                                                   *)
(*                                                                         *)
(* A byte string (a field, a key) is a sequence of small naturals: 0..9    *)
(* stand for the ASCII digits '0'..'9', 10 for a letter, 11 for '-'.       *)
(* A record (ByteRecord) is a sequence of fields.  Option<T> is a sequence *)
(* of length 0 (None) or 1 (Some).  Positions are 1-based.                 *)
(***************************************************************************)
EXTENDS Integers, Sequences, FiniteSets, TLC

VARIABLES
    merge_strategy,         \* Merger.merge_strategy
    deduplicate_strategy,   \* Merger.deduplicate_strategy
    number_key,             \* Merger.number_key
    output_header_callback, \* Merger.output_header_callback: Option<name -> Option<name>>
    left_file,              \* data rows of the left input, in file order
    right_file,             \* data rows of the right input, in file order
    left_names,             \* header row of the left input
    right_names,            \* header row of the right input
    left_pos,               \* records taken from left_lines so far
    right_pos,              \* records taken from right_lines so far
    left_line,              \* Option<(record, key)>: head of the left cursor
    right_line,             \* Option<(record, key)>: head of the right cursor
    old_left_value,         \* Option<key> of the left row last advanced past
    left_readed,            \* the left head has not been handed over yet
    right_readed,           \* the right head has not been handed over yet
    deduplicate_handler,    \* state of the dedup handler
    readers_open,           \* get_left_reader / get_right_reader have been called
    output_file,            \* the output path: "absent", "created" or "header"
    output,                 \* data rows written to the output, in order
    added,                  \* history: the add_row (and early flush) calls, in order
    previous_output,        \* Option: header and rows an earlier run has written
    transform,              \* the fields of a Transform
    path,                   \* the file at Transform.path: header row and data rows
    saved,                  \* Option: header and rows Transform::save_to has written
    pc                      \* position inside Merger::handle / the driver

vars == << merge_strategy, deduplicate_strategy, number_key,
           output_header_callback, left_file,
           right_file, left_names, right_names, left_pos, right_pos,
           left_line, right_line, old_left_value, left_readed, right_readed,
           deduplicate_handler, readers_open, output_file, output, added,
           previous_output, transform, path, saved, pc >>

-----------------------------------------------------------------------------
(* Bounds of the model.                                                    *)

MaxLeft == 2
MaxRight == 2
MaxAdds == 4
MaxRows == 1
MaxFilters == 2

None == << >>
Some(x) == << x >>

Left == "Left"
Right == "Right"

And == "And"
Or == "Or"
AndNot == "AndNot"

MergeStrategy == { Or, And, AndNot }

DeduplicateStrategy ==
    { "KeepAll", "KeepFirst", "RemoveSimilar", "Reduce", "CrossJoin",
      "CrossJoinAndRemoveSimilar" }

-----------------------------------------------------------------------------
(* Byte strings and the key comparator.                                    *)

RECURSIVE BytesCmp(_, _)
BytesCmp(a, b) ==
    IF a = << >> /\ b = << >> THEN "Equal"
    ELSE IF a = << >> THEN "Less"
    ELSE IF b = << >> THEN "Greater"
    ELSE IF Head(a) < Head(b) THEN "Less"
    ELSE IF Head(a) > Head(b) THEN "Greater"
    ELSE BytesCmp(Tail(a), Tail(b))

IsDigits(s) == s # << >> /\ \A i \in 1..Len(s) : s[i] \in 0..9

RECURSIVE DigitsVal(_)
DigitsVal(s) ==
    IF s = << >> THEN 0 ELSE DigitsVal(SubSeq(s, 1, Len(s) - 1)) * 10 + s[Len(s)]

Parses(x) ==
    \/ IsDigits(x)
    \/ Len(x) >= 2 /\ x[1] = 11 /\ IsDigits(Tail(x))

to_number(x) == IF x[1] = 11 THEN 0 - DigitsVal(Tail(x)) ELSE DigitsVal(x)

IntCmp(m, n) == IF m < n THEN "Less" ELSE IF m > n THEN "Greater" ELSE "Equal"

ComparePanics(a, b) == number_key /\ ~(Parses(a) /\ Parses(b))

compare(a, b) ==
    IF number_key THEN IntCmp(to_number(a), to_number(b)) ELSE BytesCmp(a, b)

is_eq(c) == c = "Equal"
is_ne(c) == c # "Equal"
is_le(c) == c \in { "Less", "Equal" }
is_ge(c) == c \in { "Greater", "Equal" }

-----------------------------------------------------------------------------
(* Header mapper and record projection (merge.rs).  The header callback,   *)
(* when one is installed, is a function from header names to Option<name>. *)

format_header(header) ==
    IF output_header_callback # None THEN output_header_callback[1][header]
    ELSE Some(header)

\* (record, key_index): the formatted headers and the position of the key
\* among the raw names (the closure overwrites key_index on every match).
get_headers(names, key) ==
    LET hits == { i \in 1..Len(names) : names[i] = key }
    IN  [ record |-> [ i \in 1..Len(names) |-> format_header(names[i]) ],
          key_index |-> IF hits = {} THEN None
                        ELSE Some(CHOOSE i \in hits : \A j \in hits : j <= i) ]

RECURSIVE SomeOnly(_)
SomeOnly(headers) ==
    IF headers = << >> THEN << >>
    ELSE IF Head(headers) = None THEN SomeOnly(Tail(headers))
    ELSE << Head(headers)[1] >> \o SomeOnly(Tail(headers))

RECURSIVE FirstOccurrences(_, _)
FirstOccurrences(s, seen) ==
    IF s = << >> THEN << >>
    ELSE IF Head(s) \in seen THEN FirstOccurrences(Tail(s), seen)
    ELSE << Head(s) >> \o FirstOccurrences(Tail(s), seen \cup { Head(s) })

\* Variant: the concatenation is returned without the filter.
get_output_headers_Unfiltered(left_headers, right_headers) ==
    SomeOnly(left_headers) \o SomeOnly(right_headers)

get_output_headers(left_headers, right_headers) ==
    FirstOccurrences(SomeOnly(left_headers) \o SomeOnly(right_headers), {})

get_header_pos(headers, name) ==
    LET col(i) == IF headers[i] = None THEN "" ELSE headers[i][1]
        hits == { i \in 1..Len(headers) : col(i) = name }
    IN  IF hits = {} THEN None
        ELSE Some(CHOOSE i \in hits : \A j \in hits : i <= j)

map_file_headers_to_output(output_headers, file_headers) ==
    [ x \in 1..Len(output_headers) |->
        get_header_pos(file_headers, output_headers[x]) ]

\* A data row that the record reader rejects: iter.next() is Some(Err(_)).
Rejected == << >>

\* Variant: the source record is passed on as it was read, not projected.
read_record_Unprojected(file, pos, mapping, key_index) ==
    IF pos < Len(file) /\ file[pos + 1] # Rejected
    THEN Some([ record |-> file[pos + 1], key |-> file[pos + 1][key_index] ])
    ELSE None

\* The next item of the record iterator, projected onto the output headers,
\* with the key taken from the source record.
read_record(file, pos, mapping, key_index) ==
    IF pos < Len(file) /\ file[pos + 1] # Rejected
    THEN LET record == file[pos + 1]
         IN  Some([ record |-> [ i \in 1..Len(mapping) |->
                                   IF mapping[i] # None THEN record[mapping[i][1]]
                                   ELSE << >> ],
                    key |-> record[key_index] ])
    ELSE None

left_key == "key"
right_key == "key"

left_headers == get_headers(left_names, left_key).record
right_headers == get_headers(right_names, right_key).record
output_headers == get_output_headers(left_headers, right_headers)
map_left_headers_to_union == map_file_headers_to_output(output_headers, left_headers)
map_right_headers_to_union == map_file_headers_to_output(output_headers, right_headers)
left_key_index == get_headers(left_names, left_key).key_index[1]
right_key_index == get_headers(right_names, right_key).key_index[1]

\* utils.rs: the file has zero bytes, so neither a header row nor a data row.
is_empty_file(names, file) == names = << >> /\ file = << >>

-----------------------------------------------------------------------------
(* Deduplication handlers (deduplicate.rs).  A buffered entry (record,     *)
(* side) is the pair << record, side >>.  A handler operator takes the     *)
(* handler state h and the rows w written so far and returns both.         *)

\* The key a handler reads from a projected record of the given side.
KeyOf(record, side) ==
    record[IF side = Left THEN left_key_index ELSE right_key_index]

\* ByteRecord::as_slice: all fields stored contiguously.
RECURSIVE as_slice(_)
as_slice(record) ==
    IF record = << >> THEN << >> ELSE Head(record) \o as_slice(Tail(record))

\* Vec::sort_by (stable), by insertion from the left; the entries are
\* paired with the bytes they are ordered by.
RECURSIVE InsertSorted(_, _)
InsertSorted(sorted, x) ==
    IF sorted = << >> THEN << x >>
    ELSE IF BytesCmp(x[1], Head(sorted)[1]) = "Less" THEN << x >> \o sorted
    ELSE << Head(sorted) >> \o InsertSorted(Tail(sorted), x)

RECURSIVE SortKeyed(_)
SortKeyed(v) ==
    IF v = << >> THEN << >>
    ELSE InsertSorted(SortKeyed(SubSeq(v, 1, Len(v) - 1)), v[Len(v)])

\* duplicates.sort_by(|a, b| a.as_slice().cmp(&b.as_slice())) on records.
sort_records(v) ==
    LET sorted == SortKeyed([ i \in 1..Len(v) |-> << as_slice(v[i]), v[i] >> ])
    IN  [ i \in 1..Len(v) |-> sorted[i][2] ]

\* duplicates.sort_by(|a, b| a.0.as_slice().cmp(&b.0.as_slice())) on
\* (record, side) entries.
sort_entries(v) ==
    LET sorted == SortKeyed([ i \in 1..Len(v) |-> << as_slice(v[i][1]), v[i] >> ])
    IN  [ i \in 1..Len(v) |-> sorted[i][2] ]

\* Vec::dedup: drops each element equal to the one before it.
RECURSIVE dedup(_)
dedup(v) ==
    IF Len(v) <= 1 THEN v
    ELSE LET front == dedup(SubSeq(v, 1, Len(v) - 1))
         IN  IF front[Len(front)] = v[Len(v)] THEN front
             ELSE Append(front, v[Len(v)])

\* Variant: the base keeps the fields it already has.
Overwrite_KeepBase(base, record) ==
    [ i \in 1..Len(base) |-> IF base[i] # << >> THEN base[i] ELSE record[i] ]

\* Field-wise overwrite of base by the non-empty fields of record.
Overwrite(base, record) ==
    [ i \in 1..Len(base) |-> IF record[i] # << >> THEN record[i] ELSE base[i] ]

RECURSIVE SelectSide(_, _)
SelectSide(v, side) ==
    IF v = << >> THEN << >>
    ELSE IF Head(v)[2] = side THEN << Head(v)[1] >> \o SelectSide(Tail(v), side)
    ELSE SelectSide(Tail(v), side)

HandlerInit(strategy) ==
    [ last_record |-> None,          \* KeepFirstStrategyHandler
      duplicates_counter |-> 0,      \* KeepFirstStrategyHandler
      group |-> None,                \* ReduceStrategyHandler
      last_row |-> None,             \* CrossJoin / RemoveSimilar handlers
      duplicates |-> << >>,          \* CrossJoin / RemoveSimilar handlers
      remove_similar |-> strategy = "CrossJoinAndRemoveSimilar" ]

KeepAll_add_row(h, w, row, side) == [ h |-> h, w |-> Append(w, row) ]

KeepAll_flush(h, w) == [ h |-> h, w |-> w ]

\* Variant: the look-behind is written only when the incoming key differs.
KeepFirst_add_row_SuppressRun(h, w, row, side) ==
    LET eq == IF h.last_record # None
              THEN KeyOf(h.last_record[1][1], h.last_record[1][2]) = KeyOf(row, side)
              ELSE FALSE
        w1 == IF ~eq /\ h.duplicates_counter = 0 /\ h.last_record # None
              THEN Append(w, h.last_record[1][1])
              ELSE w
    IN  [ h |-> [ h EXCEPT !.duplicates_counter = IF eq THEN @ + 1 ELSE 0,
                           !.last_record = Some(<< row, side >>) ],
          w |-> w1 ]

KeepFirst_add_row(h, w, row, side) ==
    LET eq == IF h.last_record # None
              THEN KeyOf(h.last_record[1][1], h.last_record[1][2]) = KeyOf(row, side)
              ELSE FALSE
        w1 == IF h.duplicates_counter = 0 /\ h.last_record # None
              THEN Append(w, h.last_record[1][1])
              ELSE w
    IN  [ h |-> [ h EXCEPT !.duplicates_counter = IF eq THEN @ + 1 ELSE 0,
                           !.last_record = Some(<< row, side >>) ],
          w |-> w1 ]

\* Variant: flush writes the look-behind whatever the counter is.
KeepFirst_flush_Always(h, w) ==
    [ h |-> h,
      w |-> IF h.last_record # None THEN Append(w, h.last_record[1][1]) ELSE w ]

KeepFirst_flush(h, w) ==
    [ h |-> h,
      w |-> IF h.duplicates_counter = 0 /\ h.last_record # None
            THEN Append(w, h.last_record[1][1])
            ELSE w ]

RECURSIVE ReduceRows(_, _)
ReduceRows(reduced, rest) ==
    IF rest = << >> THEN reduced
    ELSE ReduceRows(Overwrite(reduced, Head(rest)[1]), Tail(rest))

Reduce_flush_group(h, w) ==
    IF h.group # None
    THEN [ h |-> [ h EXCEPT !.group = None ],
           w |-> Append(w, ReduceRows(h.group[1][1][1], Tail(h.group[1]))) ]
    ELSE [ h |-> h, w |-> w ]

\* self.group = Some(vec![(row, side)]) on the handler x left by flush_group.
Reduce_new_group(x, row, side) ==
    [ h |-> [ x.h EXCEPT !.group = Some(<< << row, side >> >>) ], w |-> x.w ]

\* Variant: a row joins the open group whatever its key is.
Reduce_add_row_KeepsGroup(h, w, row, side) ==
    IF h.group # None
    THEN [ h |-> [ h EXCEPT !.group = Some(Append(h.group[1], << row, side >>)) ],
           w |-> w ]
    ELSE Reduce_new_group(Reduce_flush_group(h, w), row, side)

Reduce_add_row(h, w, row, side) ==
    IF h.group # None
         /\ KeyOf(row, side) = KeyOf(h.group[1][1][1], h.group[1][1][2])
    THEN [ h |-> [ h EXCEPT !.group = Some(Append(h.group[1], << row, side >>)) ],
           w |-> w ]
    ELSE Reduce_new_group(Reduce_flush_group(h, w), row, side)

Reduce_flush(h, w) == Reduce_flush_group(h, w)

\* Variant: the loops nested the other way round, right-major.
Compose_RightMajor(left_records, right_records) ==
    [ n \in 1..(Len(left_records) * Len(right_records)) |->
        Overwrite(left_records[((n - 1) % Len(left_records)) + 1],
                  right_records[((n - 1) \div Len(left_records)) + 1]) ]

\* Every left record composed with every right record, left-major.
Compose(left_records, right_records) ==
    [ n \in 1..(Len(left_records) * Len(right_records)) |->
        Overwrite(left_records[((n - 1) \div Len(right_records)) + 1],
                  right_records[((n - 1) % Len(right_records)) + 1]) ]

CrossJoin_flush_duplicates(h, w) ==
    LET dups == IF h.remove_similar THEN dedup(sort_entries(h.duplicates))
                ELSE h.duplicates
        left_records == SelectSide(dups, Left)
        right_records == SelectSide(dups, Right)
    IN  [ h |-> [ h EXCEPT !.duplicates = << >> ],
          w |-> IF Len(right_records) > 0 /\ Len(left_records) > 0
                THEN w \o Compose(left_records, right_records)
                ELSE IF Len(right_records) > 0 THEN w \o right_records
                ELSE w \o left_records ]

\* The look-behind's key against the incoming key.
is_equal(h, row, side) ==
    KeyOf(h.last_row[1][1], h.last_row[1][2]) = KeyOf(row, side)

\* Lines 349-351: a differing key closes a non-empty buffer.
CrossJoin_close(h, w, eq) ==
    IF ~eq /\ Len(h.duplicates) > 0
    THEN CrossJoin_flush_duplicates(h, w)
    ELSE [ h |-> h, w |-> w ]

CrossJoin_push(x, row, side) ==
    [ h |-> [ x.h EXCEPT !.duplicates = Append(@, << row, side >>) ], w |-> x.w ]

\* Lines 352-356: push, or flush without pushing.
CrossJoin_push_or_flush(x, eq, row, side) ==
    IF \/ eq /\ Len(x.h.duplicates) > 0
       \/ ~eq /\ Len(x.h.duplicates) = 0
    THEN CrossJoin_push(x, row, side)
    ELSE CrossJoin_flush_duplicates(x.h, x.w)

set_last_row(x, row, side) ==
    [ h |-> [ x.h EXCEPT !.last_row = Some(<< row, side >>) ], w |-> x.w ]

CrossJoin_add_row(h, w, row, side) ==
    set_last_row(
        IF h.last_row # None
        THEN CrossJoin_push_or_flush(
                 CrossJoin_close(h, w, is_equal(h, row, side)),
                 is_equal(h, row, side), row, side)
        ELSE CrossJoin_push([ h |-> h, w |-> w ], row, side),
        row, side)

CrossJoin_flush(h, w) == CrossJoin_flush_duplicates(h, w)

RemoveSimilar_flush_duplicates(h, w) ==
    [ h |-> [ h EXCEPT !.duplicates = << >> ],
      w |-> w \o dedup(sort_records(h.duplicates)) ]

\* Lines 430-432: a differing key closes a non-empty buffer.
RemoveSimilar_close(h, w, eq) ==
    IF ~eq /\ Len(h.duplicates) > 0
    THEN RemoveSimilar_flush_duplicates(h, w)
    ELSE [ h |-> h, w |-> w ]

RemoveSimilar_push(x, row) ==
    [ h |-> [ x.h EXCEPT !.duplicates = Append(@, row) ], w |-> x.w ]

\* Lines 433-437: push, or flush without pushing.
RemoveSimilar_push_or_flush(x, eq, row) ==
    IF \/ eq /\ Len(x.h.duplicates) > 0
       \/ ~eq /\ Len(x.h.duplicates) = 0
    THEN RemoveSimilar_push(x, row)
    ELSE RemoveSimilar_flush_duplicates(x.h, x.w)

RemoveSimilar_add_row(h, w, row, side) ==
    set_last_row(
        IF h.last_row # None
        THEN RemoveSimilar_push_or_flush(
                 RemoveSimilar_close(h, w, is_equal(h, row, side)),
                 is_equal(h, row, side), row)
        ELSE RemoveSimilar_push([ h |-> h, w |-> w ], row),
        row, side)

RemoveSimilar_flush(h, w) == RemoveSimilar_flush_duplicates(h, w)

\* DeduplicateStrategyHandler::add_row and ::flush: dispatch on the variant.
add_row(strategy, h, w, row, side) ==
    CASE strategy = "KeepAll" -> KeepAll_add_row(h, w, row, side)
      [] strategy = "KeepFirst" -> KeepFirst_add_row(h, w, row, side)
      [] strategy = "RemoveSimilar" -> RemoveSimilar_add_row(h, w, row, side)
      [] strategy = "Reduce" -> Reduce_add_row(h, w, row, side)
      [] OTHER -> CrossJoin_add_row(h, w, row, side)

flush(strategy, h, w) ==
    CASE strategy = "KeepAll" -> KeepAll_flush(h, w)
      [] strategy = "KeepFirst" -> KeepFirst_flush(h, w)
      [] strategy = "RemoveSimilar" -> RemoveSimilar_flush(h, w)
      [] strategy = "Reduce" -> Reduce_flush(h, w)
      [] OTHER -> CrossJoin_flush(h, w)

-----------------------------------------------------------------------------
(* Merge-join driver: Merger::handle (merge.rs).  The driver state is the  *)
(* record st of the locals of handle; every step is an operator from the   *)
(* state before to the state after, and the actions below apply it to the  *)
(* variables.                                                              *)

Cur ==
    [ left_pos |-> left_pos, right_pos |-> right_pos,
      left_line |-> left_line, right_line |-> right_line,
      old_left_value |-> old_left_value,
      left_readed |-> left_readed, right_readed |-> right_readed,
      deduplicate_handler |-> deduplicate_handler,
      readers_open |-> readers_open, output_file |-> output_file,
      output |-> output, added |-> added, pc |-> pc ]

\* Where handle continues once the named loop has been left.
StageRight(ms, r) ==
    IF ms # And /\ r # None THEN "drain_right" ELSE "flush"

StageLeft(ms, l, r) ==
    IF ms # And /\ l # None THEN "drain_left" ELSE StageRight(ms, r)

StageMain(ms, l, r) ==
    IF l # None /\ r # None THEN "main" ELSE StageLeft(ms, l, r)

\* deduplicate_handler.add_row(record, key, side), with the call logged.
Logged(st, a, line, side, idx) ==
    [ st EXCEPT !.deduplicate_handler = a.h,
                !.output = a.w,
                !.added = Append(@, [ side |-> side, idx |-> idx,
                                      record |-> line.record,
                                      key |-> line.key ]) ]

Hand(st, line, side, idx) ==
    Logged(st, add_row(deduplicate_strategy, st.deduplicate_handler, st.output,
                       line.record, side),
           line, side, idx)

ReadLeft(st) ==
    [ st EXCEPT !.left_line = read_record(left_file, st.left_pos,
                                          map_left_headers_to_union, left_key_index),
                !.left_pos = IF st.left_pos < Len(left_file) THEN @ + 1 ELSE @ ]

ReadRight(st) ==
    [ st EXCEPT !.right_line = read_record(right_file, st.right_pos,
                                           map_right_headers_to_union, right_key_index),
                !.right_pos = IF st.right_pos < Len(right_file) THEN @ + 1 ELSE @ ]

AtMain(ms, st) ==
    [ st EXCEPT !.pc = StageMain(ms, st.left_line, st.right_line) ]

AtLeftDrain(ms, st) ==
    [ st EXCEPT !.left_readed = TRUE,
                !.pc = StageLeft(ms, st.left_line, st.right_line) ]

AtRightDrain(ms, st) ==
    [ st EXCEPT !.right_readed = TRUE, !.pc = StageRight(ms, st.right_line) ]

\* handle, lines 67-128: the readers, the headers, the writer with its
\* header row, the handler and the first two heads.
setup(ms, st) ==
    IF \/ get_headers(left_names, left_key).key_index = None
       \/ get_headers(right_names, right_key).key_index = None
    THEN [ st EXCEPT !.readers_open = TRUE, !.pc = "panic" ]
    ELSE AtMain(ms, ReadRight(ReadLeft([ st EXCEPT !.readers_open = TRUE,
                                                   !.output_file = "header" ])))

\* Variant: only the left input is tested for zero bytes.
open_LeftOnly(ms, st) ==
    IF is_empty_file(left_names, left_file)
    THEN [ st EXCEPT !.output_file = "created", !.pc = "done" ]
    ELSE setup(ms, st)

\* handle from its first line: the shortcut of lines 61-65, or the setup.
open(ms, st) ==
    IF is_empty_file(left_names, left_file) \/ is_empty_file(right_names, right_file)
    THEN [ st EXCEPT !.output_file = "created", !.pc = "done" ]
    ELSE setup(ms, st)

\* Variant: any left key advanced past counts as a match.
old_left_eq_right_AnyCarry(old, right_value) == old # None

old_left_eq_right(old, right_value) ==
    IF old # None THEN old[1] = right_value ELSE FALSE

need_read_left(old, right_value, cmp) ==
    old_left_eq_right(old, right_value) /\ is_ne(cmp)

\* Variant: AND-NOT hands the left row over on Equal as well.
need_left_push_AndNotLe(ms, readed, cmp, nrl) ==
    CASE ms = And -> readed /\ is_eq(cmp)
      [] ms = Or -> readed /\ is_le(cmp) /\ ~nrl
      [] ms = AndNot -> readed /\ is_le(cmp) /\ ~nrl

\* Variant: OR hands a fresh left row over whatever the comparison says.
need_left_push_OrAnyOrder(ms, readed, cmp, nrl) ==
    CASE ms = And -> readed /\ is_eq(cmp)
      [] ms = Or -> readed
      [] ms = AndNot -> readed /\ cmp = "Less" /\ ~nrl

need_left_push(ms, readed, cmp, nrl) ==
    CASE ms = And -> readed /\ is_eq(cmp)
      [] ms = Or -> readed /\ is_le(cmp) /\ ~nrl
      [] ms = AndNot -> readed /\ cmp = "Less" /\ ~nrl

\* Variant: AND tests the right row like OR does.
need_right_push_AndLikeOr(ms, readed, cmp, oleqr) ==
    CASE ms = And -> readed /\ is_ge(cmp)
      [] ms = Or -> readed /\ is_ge(cmp)
      [] ms = AndNot -> FALSE

\* Variant: AND ignores that the right head was handed over already.
need_right_push_AndNotFresh(ms, readed, cmp, oleqr) ==
    CASE ms = And -> is_eq(cmp) \/ oleqr
      [] ms = Or -> readed /\ is_ge(cmp)
      [] ms = AndNot -> FALSE

need_right_push(ms, readed, cmp, oleqr) ==
    CASE ms = And -> readed /\ (is_eq(cmp) \/ oleqr)
      [] ms = Or -> readed /\ is_ge(cmp)
      [] ms = AndNot -> FALSE

\* Variant: on Equal the right cursor is advanced.
advance_left_OnLess(cmp, nrl) == cmp = "Less" /\ ~nrl

\* Variant: need_read_left makes the left cursor advance.
advance_left_OnNeedReadLeft(cmp, nrl) == is_le(cmp) \/ nrl

advance_left(cmp, nrl) == is_le(cmp) /\ ~nrl

\* Lines 161-165.
push_left(ms, st, cmp, nrl) ==
    IF need_left_push(ms, st.left_readed, cmp, nrl)
    THEN [ Hand(st, st.left_line[1], Left, st.left_pos) EXCEPT !.left_readed = FALSE ]
    ELSE st

\* Lines 166-174.
push_right(ms, st, cmp, oleqr) ==
    IF need_right_push(ms, st.right_readed, cmp, oleqr)
    THEN [ Hand(st, st.right_line[1], Right, st.right_pos) EXCEPT !.right_readed = FALSE ]
    ELSE st

\* Variant: both cursors are advanced.
advance_Both(st, cmp, nrl) ==
    ReadRight(ReadLeft([ st EXCEPT !.left_readed = TRUE, !.right_readed = TRUE,
                                   !.old_left_value = Some(st.left_line[1].key) ]))

\* Variant: advancing the left cursor leaves the left flag as it was.
advance_LeftStale(st, cmp, nrl) ==
    IF advance_left(cmp, nrl)
    THEN ReadLeft([ st EXCEPT !.old_left_value = Some(st.left_line[1].key) ])
    ELSE ReadRight([ st EXCEPT !.right_readed = TRUE ])

\* Lines 176-191.
advance(st, cmp, nrl) ==
    IF advance_left(cmp, nrl)
    THEN ReadLeft([ st EXCEPT !.left_readed = TRUE,
                              !.old_left_value = Some(st.left_line[1].key) ])
    ELSE ReadRight([ st EXCEPT !.right_readed = TRUE ])

main_loop_body(ms, st, cmp, oleqr, nrl) ==
    AtMain(ms, advance(push_right(ms, push_left(ms, st, cmp, nrl), cmp, oleqr),
                       cmp, nrl))

\* One iteration of the main loop, lines 130-192.
main_loop(ms, st) ==
    IF ComparePanics(st.left_line[1].key, st.right_line[1].key)
    THEN [ st EXCEPT !.pc = "panic" ]
    ELSE main_loop_body(
             ms, st,
             compare(st.left_line[1].key, st.right_line[1].key),
             old_left_eq_right(st.old_left_value, st.right_line[1].key),
             need_read_left(st.old_left_value, st.right_line[1].key,
                            compare(st.left_line[1].key, st.right_line[1].key)))

\* Variant: the left drain hands rows over in OR mode only.
drain_left_OrOnly(ms, st) ==
    AtLeftDrain(ms, ReadLeft(IF st.left_readed /\ ms = Or
                             THEN Hand(st, st.left_line[1], Left, st.left_pos)
                             ELSE st))

\* One iteration of the left drain, lines 194-216.
drain_left(ms, st) ==
    AtLeftDrain(ms, ReadLeft(IF st.left_readed /\ ms \in { Or, AndNot }
                             THEN Hand(st, st.left_line[1], Left, st.left_pos)
                             ELSE st))

\* Variant: the right drain ignores that its head was handed over already.
drain_right_NotFresh(ms, st) ==
    AtRightDrain(ms, ReadRight(IF ms = Or
                               THEN Hand(st, st.right_line[1], Right, st.right_pos)
                               ELSE st))

\* Variant: the right drain hands no row over.
drain_right_Skipped(ms, st) == AtRightDrain(ms, ReadRight(st))

\* One iteration of the right drain, lines 218-240.
drain_right(ms, st) ==
    AtRightDrain(ms, ReadRight(IF st.right_readed /\ ms = Or
                               THEN Hand(st, st.right_line[1], Right, st.right_pos)
                               ELSE st))

\* deduplicate_handler.flush() and the return, lines 242-243.
flushed(st, f) ==
    [ st EXCEPT !.deduplicate_handler = f.h, !.output = f.w, !.pc = "done" ]

finish(ms, st) ==
    flushed(st, flush(deduplicate_strategy, st.deduplicate_handler, st.output))

step(ms, st) ==
    CASE st.pc = "created" -> open(ms, st)
      [] st.pc = "main" -> main_loop(ms, st)
      [] st.pc = "drain_left" -> drain_left(ms, st)
      [] st.pc = "drain_right" -> drain_right(ms, st)
      [] st.pc = "flush" -> finish(ms, st)
      [] OTHER -> st

-----------------------------------------------------------------------------
(* Inputs, initial states and actions of the merge.                        *)

\* "1", "2" and "02": in byte order 02 < 1 < 2, as numbers 1 < 2 = 02.
Keys == { << 1 >>, << 2 >>, << 0, 2 >> }
Vals == { << >>, << 5 >> }
FileRows == { << k, v >> : k \in Keys, v \in Vals }
\* The right header row: its value column is its own, or shared with the left.
OwnColumn == { << "key", "B" >> }
RightLayouts == { << "key", "B" >>, << "key", "A" >> }

SeqsUpTo(S, n) == UNION { [ 1..m -> S ] : m \in 0..n }

\* The precondition of the merge: a file is sorted by its key column.
IsSorted(file, key_index) ==
    \A i \in 1..Len(file) : \A j \in i..Len(file) :
        ~ComparePanics(file[i][key_index], file[j][key_index])
        /\ is_le(compare(file[i][key_index], file[j][key_index]))

\* Transform::new: tab-delimited, no filter, no line numbers, no callback.
Transform_new ==
    [ append_line_number |-> FALSE, filters |-> << >>, columns_transform |-> None ]

Apply(st) ==
    /\ left_pos' = st.left_pos
    /\ right_pos' = st.right_pos
    /\ left_line' = st.left_line
    /\ right_line' = st.right_line
    /\ old_left_value' = st.old_left_value
    /\ left_readed' = st.left_readed
    /\ right_readed' = st.right_readed
    /\ deduplicate_handler' = st.deduplicate_handler
    /\ readers_open' = st.readers_open
    /\ output_file' = st.output_file
    /\ output' = st.output
    /\ added' = st.added
    /\ pc' = st.pc
    /\ UNCHANGED << merge_strategy, deduplicate_strategy, number_key,
                    output_header_callback, previous_output,
                    transform, path, saved,
                    left_file, right_file, left_names, right_names >>

InitRun(start) ==
    /\ left_pos = 0
    /\ right_pos = 0
    /\ left_line = None
    /\ right_line = None
    /\ old_left_value = None
    /\ left_readed = TRUE
    /\ right_readed = TRUE
    /\ deduplicate_handler = HandlerInit(deduplicate_strategy)
    /\ readers_open = FALSE
    /\ output_file = "absent"
    /\ output = << >>
    /\ added = << >>
    /\ previous_output = None
    /\ pc = start

\* A merge or a handler on its own: no Transform is at work.
InitDriver(start) ==
    /\ InitRun(start)
    /\ transform = Transform_new
    /\ path = [ names |-> << >>, rows |-> << >> ]
    /\ saved = None

\* Merger::create with two sorted, non-empty-header inputs.
InitMerge(modes, strategies, numeric, layouts) ==
    /\ merge_strategy \in modes
    /\ deduplicate_strategy \in strategies
    /\ number_key \in numeric
    /\ output_header_callback = None
    /\ left_names = << "key", "A" >>
    /\ right_names \in layouts
    /\ left_file \in SeqsUpTo(FileRows, MaxLeft)
    /\ right_file \in SeqsUpTo(FileRows, MaxRight)
    /\ IsSorted(left_file, left_key_index)
    /\ IsSorted(right_file, right_key_index)
    /\ InitDriver("created")

Open == pc = "created" /\ Apply(open(merge_strategy, Cur))

MainLoop == pc = "main" /\ Apply(main_loop(merge_strategy, Cur))

DrainLeft == pc = "drain_left" /\ Apply(drain_left(merge_strategy, Cur))

DrainRight == pc = "drain_right" /\ Apply(drain_right(merge_strategy, Cur))

Flush == pc = "flush" /\ Apply(finish(merge_strategy, Cur))

Next == Open \/ MainLoop \/ DrainLeft \/ DrainRight \/ Flush

Init == InitMerge(MergeStrategy, { "KeepAll" }, BOOLEAN, OwnColumn)

Spec == Init /\ [][Next]_vars

\* The whole of handle from st on, as the driver runs it.
RECURSIVE Run(_, _)
Run(ms, st) ==
    IF st.pc \in { "done", "panic" } THEN st ELSE Run(ms, step(ms, st))

Created ==
    [ left_pos |-> 0, right_pos |-> 0, left_line |-> None, right_line |-> None,
      old_left_value |-> None, left_readed |-> TRUE, right_readed |-> TRUE,
      deduplicate_handler |-> HandlerInit(deduplicate_strategy),
      readers_open |-> FALSE, output_file |-> "absent",
      output |-> << >>, added |-> << >>, pc |-> "created" ]

-----------------------------------------------------------------------------
(* A dedup handler on its own: any sequence of add_row calls, then flush.  *)

DedupKeys == { << 1 >>, << 2 >> }
DedupVals == { << >>, << 5 >>, << 6 >> }
DedupRows == { << k, v >> : k \in DedupKeys, v \in DedupVals }

InitDedup(strategies) ==
    /\ merge_strategy = Or
    /\ deduplicate_strategy \in strategies
    /\ number_key = FALSE
    /\ output_header_callback = None
    /\ left_names = << "key", "A" >>
    /\ right_names = << "key", "A" >>
    /\ left_file = << >>
    /\ right_file = << >>
    /\ InitDriver("adding")

HandlerAdd ==
    /\ pc = "adding"
    /\ Len(added) < MaxAdds
    /\ \E row \in DedupRows, side \in { Left, Right } :
          Apply(Hand(Cur, [ record |-> row, key |-> KeyOf(row, side) ], side,
                     Len(added) + 1))

HandlerFlush == pc = "adding" /\ Apply(finish(merge_strategy, Cur))

NextDedup == HandlerAdd \/ HandlerFlush

SpecKeepFirst == InitDedup({ "KeepFirst" }) /\ [][NextDedup]_vars

SpecReduce == InitDedup({ "Reduce" }) /\ [][NextDedup]_vars

-----------------------------------------------------------------------------
(* Vocabulary of the properties.                                           *)

LeftKeyAt(i) == left_file[i][left_key_index]
RightKeyAt(j) == right_file[j][right_key_index]
\* Equality of keys under the active comparator.
KeyEq(a, b) == ~ComparePanics(a, b) /\ is_eq(compare(a, b))
LeftWithKey(k) == { i \in 1..Len(left_file) : KeyEq(LeftKeyAt(i), k) }
RightWithKey(k) == { j \in 1..Len(right_file) : KeyEq(RightKeyAt(j), k) }
InLeft(k) == LeftWithKey(k) # {}
InRight(k) == RightWithKey(k) # {}

\* The projected record of a data row of an input.
LeftRecord(i) ==
    read_record(left_file, i - 1, map_left_headers_to_union, left_key_index)[1].record
RightRecord(j) ==
    read_record(right_file, j - 1, map_right_headers_to_union, right_key_index)[1].record

\* How often data row idx of the given side was handed to the handler.
Handed(log, side, idx) ==
    Cardinality({ n \in 1..Len(log) : log[n].side = side /\ log[n].idx = idx })

\* The key column of an output row.
OutKey(row) == row[left_key_index]

RECURSIVE Filter(_, _)
Filter(rows, k) ==
    IF rows = << >> THEN << >>
    ELSE IF KeyEq(OutKey(Head(rows)), k)
         THEN << Head(rows) >> \o Filter(Tail(rows), k)
    ELSE Filter(Tail(rows), k)

\* y over x: the fields of y where y has a value, those of x elsewhere.
Over(x, y) == [ i \in 1..Len(x) |-> IF Len(y[i]) > 0 THEN y[i] ELSE x[i] ]

\* The pairs of the left rows is and the right rows js (ascending index
\* sets), every left row with every right row, left-major.
RECURSIVE Ascending(_)
Ascending(S) ==
    IF S = {} THEN << >>
    ELSE LET m == CHOOSE x \in S : \A y \in S : x <= y
         IN  << m >> \o Ascending(S \ { m })

RECURSIVE PairsOfRow(_, _)
PairsOfRow(i, js) ==
    IF js = << >> THEN << >>
    ELSE << Over(LeftRecord(i), RightRecord(Head(js))) >> \o PairsOfRow(i, Tail(js))

RECURSIVE AllPairs(_, _)
AllPairs(is, js) ==
    IF is = << >> THEN << >>
    ELSE PairsOfRow(Head(is), js) \o AllPairs(Tail(is), js)

-----------------------------------------------------------------------------
(* C1-C10.                                                                 *)

SpecCrossJoin ==
    InitMerge(MergeStrategy, { "CrossJoin" }, { FALSE }, RightLayouts) /\ [][Next]_vars

\* C1: in AND mode with CrossJoin, for every key with m >= 1 left rows and
\* n >= 1 right rows the output holds exactly the m*n composed rows of that
\* key, every left row with every right row, left-major and right-minor.
C1_CrossJoinAllPairs ==
    (pc = "done" /\ merge_strategy = And /\ deduplicate_strategy = "CrossJoin")
    => \A k \in { c \in Keys : InLeft(c) /\ InRight(c) } :
          Filter(output, k)
            = AllPairs(Ascending(LeftWithKey(k)), Ascending(RightWithKey(k)))

\* C2: in AND mode every right row whose key occurs several times in the
\* right input and at least once in the left input is handed to the handler
\* exactly once, wherever the key lies in the left input.
C2_RightDuplicatesHanded ==
    (pc = "done" /\ merge_strategy = And)
    => \A j \in 1..Len(right_file) :
          (Cardinality(RightWithKey(RightKeyAt(j))) >= 2
             /\ InLeft(RightKeyAt(j)))
          => Handed(added, Right, j) = 1

\* Runs of the add_row calls: maximal stretches of consecutive calls whose
\* keys, as the handler reads them, are equal.
LogKey(log, n) == KeyOf(log[n].record, log[n].side)
RunStart(log, n) == n = 1 \/ LogKey(log, n - 1) # LogKey(log, n)
RunEnd(log, n) == n = Len(log) \/ LogKey(log, n + 1) # LogKey(log, n)
RunStarts(log) == { n \in 1..Len(log) : RunStart(log, n) }
Singles(log) == { n \in 1..Len(log) : RunStart(log, n) /\ RunEnd(log, n) }
\* The calls of the run that starts with call n.
RunOf(log, n) ==
    { m \in n..Len(log) : \A q \in (n + 1)..m : ~RunStart(log, q) }
\* The position of the run that starts with call n among the runs.
RunIndex(log, n) == Cardinality({ m \in 1..n : RunStart(log, m) })

\* The records of the calls S (a set of call numbers), in call order.
RecordsOf(log, S) == [ p \in 1..Cardinality(S) |-> log[Ascending(S)[p]].record ]

SpecAndNot ==
    InitMerge({ AndNot }, DeduplicateStrategy, BOOLEAN, OwnColumn) /\ [][Next]_vars

\* C4: in AND-NOT mode, under every deduplication strategy, no row of the
\* output has a key that occurs in the right input.
C4_AndNotNoRightKey ==
    merge_strategy = AndNot
    => \A n \in 1..Len(output) : ~InRight(OutKey(output[n]))

\* An AND-NOT run over inputs that share a key has written a row.
C4_Witness ==
    /\ pc = "done"
    /\ merge_strategy = AndNot
    /\ deduplicate_strategy = "CrossJoin"
    /\ \E i \in 1..Len(left_file) : InRight(LeftKeyAt(i))
    /\ Len(output) >= 1

\* The left rows whose key does not occur in the right input.
Unmatched == { i \in 1..Len(left_file) : ~InRight(LeftKeyAt(i)) }

\* C5: in AND-NOT mode with KeepAll no Right row is ever handed to the
\* handler, and at the end exactly the left rows whose key does not occur in
\* the right input have been handed over and written, once each, in left
\* input order.
C5_AndNotLeftDifference ==
    (merge_strategy = AndNot /\ deduplicate_strategy = "KeepAll")
    => /\ \A n \in 1..Len(added) : added[n].side = Left
       /\ pc = "done"
          => /\ [ n \in 1..Len(added) |-> added[n].idx ] = Ascending(Unmatched)
             /\ output = [ n \in 1..Cardinality(Unmatched) |->
                             LeftRecord(Ascending(Unmatched)[n]) ]

\* An AND-NOT run that dropped a matched left row and drained a left row
\* after the right cursor was exhausted.
C5_Witness ==
    /\ pc = "done"
    /\ merge_strategy = AndNot
    /\ deduplicate_strategy = "KeepAll"
    /\ Len(left_file) = 2
    /\ InRight(LeftKeyAt(1))
    /\ ~InRight(LeftKeyAt(2))
    /\ Len(output) = 1

\* C6: in OR mode no data row is handed to the handler twice, every call
\* carries the row of its own side, and at the end every data row of both
\* inputs has been handed over exactly once.
C6_OrEveryRowOnce ==
    merge_strategy = Or
    => /\ \A i \in 1..Len(left_file) : Handed(added, Left, i) <= 1
       /\ \A j \in 1..Len(right_file) : Handed(added, Right, j) <= 1
       /\ \A n \in 1..Len(added) :
             added[n].record = IF added[n].side = Left
                               THEN LeftRecord(added[n].idx)
                               ELSE RightRecord(added[n].idx)
       /\ pc = "done"
          => /\ \A i \in 1..Len(left_file) : Handed(added, Left, i) = 1
             /\ \A j \in 1..Len(right_file) : Handed(added, Right, j) = 1

\* The right drain starts on a head that the main loop has already handed
\* over, with a further right row behind it.
C6_Witness ==
    /\ pc = "drain_right"
    /\ merge_strategy = Or
    /\ ~right_readed
    /\ right_pos < Len(right_file)
    /\ Handed(added, Right, right_pos) = 1

\* C7: in AND mode a Left row is handed over only while the right head has
\* an equal key, and a Right row only while its key equals the key of the
\* left head or of the left row last advanced past; so every row handed over
\* has a key that occurs in the other input.
C7_AndOnlyMatching ==
    /\ [](merge_strategy = And
          => \A n \in 1..Len(added) :
                IF added[n].side = Left THEN InRight(added[n].key)
                ELSE InLeft(added[n].key))
    /\ [][(merge_strategy = And /\ pc = "main")
          => \A n \in (Len(added) + 1)..Len(added') :
                /\ added'[n].side = Left
                   => is_eq(compare(added'[n].key, right_line[1].key))
                /\ added'[n].side = Right
                   => \/ is_eq(compare(added'[n].key, left_line[1].key))
                      \/ old_left_value = Some(added'[n].key)]_vars

\* An AND run handed over a right row that matched only the left row last
\* advanced past.
C7_Witness ==
    /\ merge_strategy = And
    /\ Len(added) >= 3
    /\ added[Len(added)].side = Right
    /\ left_line # None
    /\ ~KeyEq(added[Len(added)].key, left_line[1].key)

\* C8: in AND mode with KeepAll every left row whose key occurs in the right
\* input has been handed over exactly once at the end, and an iteration that
\* hands over a left and a right row writes the Left row before the Right.
C8_AndLeftOnceLeftFirst ==
    /\ []((merge_strategy = And /\ pc = "done")
          => \A i \in 1..Len(left_file) :
                InRight(LeftKeyAt(i)) => Handed(added, Left, i) = 1)
    /\ [][(merge_strategy = And /\ deduplicate_strategy = "KeepAll"
             /\ pc = "main" /\ Len(added') = Len(added) + 2)
          => /\ added'[Len(added) + 1].side = Left
             /\ added'[Len(added) + 2].side = Right
             /\ output' = output \o << left_line[1].record,
                                       right_line[1].record >>]_vars

\* An AND run over left keys k, k' and right keys k, k' wrote L, R, L, R.
C8_Witness ==
    /\ pc = "done"
    /\ merge_strategy = And
    /\ deduplicate_strategy = "KeepAll"
    /\ Len(added) = 4
    /\ [ n \in 1..4 |-> added[n].side ] = << Left, Right, Left, Right >>
    /\ added[1].key # added[3].key
    /\ Len(output) = 4

\* How often the pair (record, side) occurs among the calls of log.
Occurs(log, record, side) ==
    Cardinality({ n \in 1..Len(log) :
                    log[n].record = record /\ log[n].side = side })

\* C9: with KeepAll, the (row, side) pairs handed over by an AND run are a
\* sub-multiset of those handed over by the OR run over the same inputs.
C9_AndWithinOr ==
    (pc = "done" /\ merge_strategy = And /\ deduplicate_strategy = "KeepAll")
    => LET or_run == Run(Or, Created)
       IN  /\ or_run.pc = "done"
           /\ \A n \in 1..Len(added) :
                 Occurs(added, added[n].record, added[n].side)
                   <= Occurs(or_run.added, added[n].record, added[n].side)
           /\ \A n \in 1..Len(output) :
                 Cardinality({ m \in 1..Len(output) : output[m] = output[n] })
                   <= Cardinality({ m \in 1..Len(or_run.output) :
                                      or_run.output[m] = output[n] })

\* An AND run that handed over some rows while the OR run over the same
\* inputs hands over more.
C9_Witness ==
    /\ pc = "done"
    /\ merge_strategy = And
    /\ deduplicate_strategy = "KeepAll"
    /\ Len(added) >= 2
    /\ Len(Run(Or, Created).added) > Len(added)

\* The last non-empty value of field i among the calls S, empty if none.
LastNonEmpty(log, S, i) ==
    LET filled == { m \in S : log[m].record[i] # << >> }
    IN  IF filled = {} THEN << >>
        ELSE log[CHOOSE m \in filled : \A q \in filled : q <= m].record[i]

\* C10: with Reduce, after flush, one row has been written per maximal run,
\* in run order, and its field i is the last non-empty value of field i
\* among the rows of the run (empty if all are empty); a run of one row is
\* written unchanged.
C10_ReduceLastNonEmpty ==
    (pc = "done" /\ deduplicate_strategy = "Reduce")
    => /\ Len(output) = Cardinality(RunStarts(added))
       /\ \A n \in RunStarts(added) :
             /\ output[RunIndex(added, n)]
                  = [ i \in 1..Len(added[n].record) |->
                        LastNonEmpty(added, RunOf(added, n), i) ]
             /\ RunEnd(added, n) => output[RunIndex(added, n)] = added[n].record

\* A run of three rows whose value field is filled, filled differently and
\* then empty, followed by a run of one row, flushed.
C10_Witness ==
    /\ pc = "done"
    /\ deduplicate_strategy = "Reduce"
    /\ Len(added) = 4
    /\ RunStarts(added) = { 1, 4 }
    /\ added[1].record[2] # << >>
    /\ added[2].record[2] \notin { << >>, added[1].record[2] }
    /\ added[3].record[2] = << >>
    /\ Len(output) = 2

-----------------------------------------------------------------------------
(* C11-C20.                                                                *)

SpecCrossJoinHandler == InitDedup({ "CrossJoin" }) /\ [][NextDedup]_vars

\* The calls of side among the calls S.
OfSide(log, S, side) == { m \in S : log[m].side = side }

\* x under each y of ys, in the order of ys.
RECURSIVE WithEach(_, _)
WithEach(x, ys) ==
    IF ys = << >> THEN << >>
    ELSE << Over(x, Head(ys)) >> \o WithEach(x, Tail(ys))

\* Each x of xs (outer) under each y of ys (inner).
RECURSIVE EachWithEach(_, _)
EachWithEach(xs, ys) ==
    IF xs = << >> THEN << >>
    ELSE WithEach(Head(xs), ys) \o EachWithEach(Tail(xs), ys)

\* What closing the run that starts with call n is to write.
RunClosed(log, n) ==
    LET X == RecordsOf(log, OfSide(log, RunOf(log, n), Left))
        Y == RecordsOf(log, OfSide(log, RunOf(log, n), Right))
    IN  IF X # << >> /\ Y # << >> THEN EachWithEach(X, Y)
        ELSE IF X = << >> THEN Y ELSE X

\* The same for the runs that start with the calls starts, in order.
RECURSIVE RunsClosed(_, _)
RunsClosed(log, starts) ==
    IF starts = << >> THEN << >>
    ELSE RunClosed(log, Head(starts)) \o RunsClosed(log, Tail(starts))

\* The run starts of log but the last one.
ClosedStarts(log) ==
    { n \in RunStarts(log) : \E m \in RunStarts(log) : m > n }

\* C11: the CrossJoin handler writes, for a closed run with the Left rows X
\* and the Right rows Y in arrival order, the |X|*|Y| rows "y over x" for
\* each x (outer) and each y (inner) when both are non-empty, and otherwise
\* the rows of the non-empty side unchanged in arrival order; a run is
\* written when it is closed, by the next key or by flush.
C11_CrossJoinRun ==
    deduplicate_strategy = "CrossJoin"
    => /\ pc = "adding"
          => output = RunsClosed(added, Ascending(ClosedStarts(added)))
       /\ pc = "done"
          => /\ output = RunsClosed(added, Ascending(RunStarts(added)))
             /\ \A n \in RunStarts(added) :
                   LET m == Cardinality(OfSide(added, RunOf(added, n), Left))
                       k == Cardinality(OfSide(added, RunOf(added, n), Right))
                   IN  Len(RunClosed(added, n))
                         = IF m > 0 /\ k > 0 THEN m * k
                           ELSE IF m > k THEN m ELSE k

\* One run of two Left and two Right rows with different values, flushed.
C11_Witness ==
    /\ pc = "done"
    /\ deduplicate_strategy = "CrossJoin"
    /\ Len(added) = 4
    /\ RunStarts(added) = { 1 }
    /\ Cardinality(OfSide(added, 1..4, Left)) = 2
    /\ Cardinality(OfSide(added, 1..4, Right)) = 2
    /\ Len(output) = 4
    /\ output[2] # output[3]

\* A handler on its own over rows of three columns, the key and two values.
WideNames == << "key", "A", "B" >>
WideVals == { << >>, << 5 >> }
WideRows == { << k, a, b >> : k \in DedupKeys, a \in WideVals, b \in WideVals }

InitDedupWide(strategies) ==
    /\ merge_strategy = Or
    /\ deduplicate_strategy \in strategies
    /\ number_key = FALSE
    /\ output_header_callback = None
    /\ left_names = WideNames
    /\ right_names = WideNames
    /\ left_file = << >>
    /\ right_file = << >>
    /\ InitDriver("adding")

HandlerAddWide ==
    /\ pc = "adding"
    /\ Len(added) < MaxAdds
    /\ \E row \in WideRows, side \in { Left, Right } :
          Apply(Hand(Cur, [ record |-> row, key |-> KeyOf(row, side) ], side,
                     Len(added) + 1))

NextDedupWide == HandlerAddWide \/ HandlerFlush

SpecRemoveSimilar == InitDedupWide({ "RemoveSimilar" }) /\ [][NextDedupWide]_vars

\* The distinct rows of the run that starts with call n; rows are equal when
\* they have the same fields, field by field.
DistinctOf(log, n) == { log[m].record : m \in RunOf(log, n) }

\* out is, run by run, the distinct rows of the run, each once, in some order.
RECURSIVE EachDistinctOnce(_, _, _)
EachDistinctOnce(log, starts, out) ==
    IF starts = << >> THEN out = << >>
    ELSE LET c == Cardinality(DistinctOf(log, Head(starts)))
         IN  /\ Len(out) >= c
             /\ { out[i] : i \in 1..c } = DistinctOf(log, Head(starts))
             /\ EachDistinctOnce(log, Tail(starts), SubSeq(out, c + 1, Len(out)))

\* C12: with RemoveSimilar, after flush, the rows written for a run are
\* pairwise different (field by field) and every distinct row of the run
\* has been written exactly once.
C12_RemoveSimilarDistinct ==
    (pc = "done" /\ deduplicate_strategy = "RemoveSimilar")
    => EachDistinctOnce(added, Ascending(RunStarts(added)), output)

\* Inputs with other header rows: the data rows of a file with the header
\* row names hold a key under the key column and a value under the others.
LayoutKeys == { << 1 >>, << 2 >> }
RowsOf(names) ==
    { r \in [ 1..Len(names) -> LayoutKeys \cup Vals ] :
        \A i \in 1..Len(names) : names[i] = "key" <=> r[i] \in LayoutKeys }

\* Merger::create with a header callback (or none) and header rows that hold
\* the key column, over sorted inputs of at most MaxRows data rows.
InitLayout(modes, strategies, callbacks, lefts, rights) ==
    /\ merge_strategy \in modes
    /\ deduplicate_strategy \in strategies
    /\ number_key = FALSE
    /\ output_header_callback \in callbacks
    /\ left_names \in lefts
    /\ right_names \in rights
    /\ left_file \in SeqsUpTo(RowsOf(left_names), MaxRows)
    /\ right_file \in SeqsUpTo(RowsOf(right_names), MaxRows)
    /\ IsSorted(left_file, left_key_index)
    /\ IsSorted(right_file, right_key_index)
    /\ InitDriver("created")

\* The right input with its key column first or last, and with a value
\* column of its own or one shared with the left input.
KeyLastLayouts == { << "key", "B" >>, << "B", "key" >>, << "A", "key" >> }

SpecLayout ==
    InitLayout(MergeStrategy, DeduplicateStrategy, { None },
               { << "key", "A" >> }, KeyLastLayouts) /\ [][Next]_vars

\* C13: under every merge mode and every deduplication strategy a data row
\* written to the output has one field per output header, and its field i
\* is empty or the field i of a projected row that was handed over: no
\* handler moves a value to another column.
C13_RowsFitHeaders ==
    \A n \in 1..Len(output) :
        /\ Len(output[n]) = Len(output_headers)
        /\ \A i \in 1..Len(output_headers) :
              \/ output[n][i] = << >>
              \/ \E m \in 1..Len(added) : added[m].record[i] = output[n][i]

\* A CrossJoin run wrote a row composed of a left and a right row, with a
\* value in the column of each.
C13_Witness ==
    /\ pc = "done"
    /\ deduplicate_strategy = "CrossJoin"
    /\ Len(output_headers) = 3
    /\ Len(output) = 1
    /\ output[1][2] # << >>
    /\ output[1][3] # << >>

\* Header callbacks: one that drops the names D, one that renames B to A.
HeaderNames == { "key", "A", "B", "" }
Drop(D) == Some([ h \in HeaderNames |-> IF h \in D THEN None ELSE Some(h) ])
RenameBtoA == Some([ h \in HeaderNames |-> IF h = "B" THEN Some("A") ELSE Some(h) ])
Callbacks == { None, Drop({ "A" }), Drop({ "B" }), RenameBtoA }

SpecHeaders ==
    InitLayout(MergeStrategy, { "KeepAll" }, Callbacks,
               { << "key", "A" >>, << "key", "" >> },
               { << "key", "B" >>, << "A", "key", "B" >> }) /\ [][Next]_vars

\* The names a formatted header list keeps.
Kept(headers) ==
    { headers[j][1] : j \in { q \in 1..Len(headers) : headers[q] # None } }

\* The first position of name in the left header list followed by the right.
FirstPos(name) ==
    LET both == left_headers \o right_headers
    IN  CHOOSE p \in 1..Len(both) :
            /\ both[p] = Some(name)
            /\ \A q \in 1..(p - 1) : both[q] # Some(name)

\* C14: the header row written is the left header list followed by the
\* right one with every later duplicate removed: no name twice, every
\* header either input keeps and no other, in the order of the first
\* occurrences.
C14_OutputHeaders ==
    output_file = "header"
    => /\ \A i, j \in 1..Len(output_headers) :
             output_headers[i] = output_headers[j] => i = j
       /\ { output_headers[i] : i \in 1..Len(output_headers) }
             = Kept(left_headers) \cup Kept(right_headers)
       /\ \A i, j \in 1..Len(output_headers) :
             i < j => FirstPos(output_headers[i]) < FirstPos(output_headers[j])

\* Headers key,A and A,key,B with B dropped: the union is key,A.
C14_Witness ==
    /\ output_file = "header"
    /\ left_names = << "key", "A" >>
    /\ right_names = << "A", "key", "B" >>
    /\ output_header_callback = Drop({ "B" })
    /\ output_headers = << "key", "A" >>

\* The formatted header list and the source row of call n of the log.
HeadersOf(side) == IF side = Left THEN left_headers ELSE right_headers
SourceOf(call) ==
    IF call.side = Left THEN left_file[call.idx] ELSE right_file[call.idx]
\* The positions of the name in a formatted header list.
PositionsOf(headers, name) ==
    { j \in 1..Len(headers) : headers[j] = Some(name) }

\* C15: for each side and each output column i, field i of a projected row
\* is the source row's field at a position where H[i] occurs in the side's
\* header list, and is the zero-length field when H[i] does not occur there.
C15_Projection ==
    \A n \in 1..Len(added) : \A i \in 1..Len(output_headers) :
        IF PositionsOf(HeadersOf(added[n].side), output_headers[i]) # {}
        THEN \E j \in PositionsOf(HeadersOf(added[n].side), output_headers[i]) :
                added[n].record[i] = SourceOf(added[n])[j]
        ELSE added[n].record[i] = << >>

\* C16: a value in a projected row comes from a source column that the
\* callback kept under the name of the output column, never from a column
\* it dropped.
C16_DroppedNeverRead ==
    \A n \in 1..Len(added) : \A i \in 1..Len(output_headers) :
        added[n].record[i] # << >>
        => \E j \in 1..Len(HeadersOf(added[n].side)) :
              /\ HeadersOf(added[n].side)[j] # None
              /\ HeadersOf(added[n].side)[j][1] = output_headers[i]
              /\ SourceOf(added[n])[j] = added[n].record[i]

\* Inputs that may have zero bytes or lack the key column.
HasKey(names) == get_headers(names, "key").key_index # None

SortedIfKeyed(names, file) ==
    IF HasKey(names) THEN IsSorted(file, get_headers(names, "key").key_index[1])
    ELSE TRUE

FilesOver(names) ==
    IF names = << >> THEN { << >> } ELSE SeqsUpTo(RowsOf(names), MaxRows)

InitZero ==
    /\ merge_strategy \in MergeStrategy
    /\ deduplicate_strategy \in DeduplicateStrategy
    /\ number_key \in BOOLEAN
    /\ output_header_callback = None
    /\ left_names \in { << >>, << "key", "A" >>, << "A" >> }
    /\ right_names \in { << >>, << "key", "B" >>, << "B" >> }
    /\ left_file \in FilesOver(left_names)
    /\ right_file \in FilesOver(right_names)
    /\ SortedIfKeyed(left_names, left_file)
    /\ SortedIfKeyed(right_names, right_file)
    /\ InitDriver("created")

SpecZero == InitZero /\ [][Next]_vars

ZeroBytes ==
    is_empty_file(left_names, left_file) \/ is_empty_file(right_names, right_file)

\* C17: when an input has zero bytes, the first step of the run creates the
\* output file with nothing in it and returns success; no reader is ever
\* opened, no key column resolved (a missing one is no failure), no header
\* row and no data row written.
C17_EmptyShortcut ==
    /\ [](ZeroBytes
          => /\ pc \in { "created", "done" }
             /\ ~readers_open
             /\ output_file = IF pc = "done" THEN "created" ELSE "absent"
             /\ output = << >>
             /\ added = << >>
             /\ left_pos = 0 /\ right_pos = 0)
    /\ [][(ZeroBytes /\ pc = "created") => pc' = "done"]_vars

\* The left input has zero bytes, the right one a data row and no key
\* column; the run has returned.
C17_Witness ==
    /\ pc = "done"
    /\ left_names = << >>
    /\ right_names = << "B" >>
    /\ Len(right_file) = 1
    /\ output_file = "created"

\* Inputs in which the record reader rejects some data row.
RECURSIVE Readable(_)
Readable(file) ==
    IF file = << >> THEN << >>
    ELSE IF Head(file) = Rejected THEN Readable(Tail(file))
    ELSE << Head(file) >> \o Readable(Tail(file))

InitRejects ==
    /\ merge_strategy \in MergeStrategy
    /\ deduplicate_strategy = "KeepAll"
    /\ number_key = FALSE
    /\ output_header_callback = None
    /\ left_names = << "key", "A" >>
    /\ right_names = << "key", "B" >>
    /\ left_file \in SeqsUpTo(RowsOf(left_names) \cup { Rejected }, MaxLeft)
    /\ right_file \in SeqsUpTo(RowsOf(right_names) \cup { Rejected }, MaxRight)
    /\ IsSorted(Readable(left_file), left_key_index)
    /\ IsSorted(Readable(right_file), right_key_index)
    /\ InitDriver("created")

SpecRejects == InitRejects /\ [][Next]_vars

\* C18: a run that returns success has met no data row that the record
\* reader rejects, in either input: a failed read ends the run with an error.
C18_ReadErrorSurfaced ==
    pc = "done"
    => /\ \A i \in 1..left_pos : left_file[i] # Rejected
       /\ \A j \in 1..right_pos : right_file[j] # Rejected

\* C19: the key index a handler uses for a side is the position of the key
\* column in the output header list: in every projected row handed over,
\* the field at its side's key index is the key of its source row.
C19_KeyIndexInUnion ==
    \A n \in 1..Len(added) :
        /\ output_headers[IF added[n].side = Left THEN left_key_index
                          ELSE right_key_index]
             = IF added[n].side = Left THEN left_key ELSE right_key
        /\ KeyOf(added[n].record, added[n].side) = added[n].key

\* Numeric keys "2", "02" and "3": as numbers 2 = 02 < 3.
NumericKeys == { << 2 >>, << 0, 2 >>, << 3 >> }
NumericRows == { << k, v >> : k \in NumericKeys, v \in Vals }

InitNumeric(numeric) ==
    /\ merge_strategy \in MergeStrategy
    /\ deduplicate_strategy \in { "KeepAll", "Reduce" }
    /\ number_key \in numeric
    /\ output_header_callback = None
    /\ left_names = << "key", "A" >>
    /\ right_names = << "key", "B" >>
    /\ left_file \in SeqsUpTo(NumericRows, MaxLeft)
    /\ right_file \in SeqsUpTo(NumericRows, MaxRight)
    /\ IsSorted(left_file, left_key_index)
    /\ IsSorted(right_file, right_key_index)
    /\ InitDriver("created")

SpecNumeric == InitNumeric({ TRUE }) /\ [][Next]_vars

\* The calls that start a run when keys are compared by the active
\* comparator.
ComparatorRunStarts(log) ==
    { n \in 1..Len(log) : n = 1 \/ ~KeyEq(log[n - 1].key, log[n].key) }

\* C20: runs and the carry-match go by key equality under the active
\* comparator.  In OR mode Reduce has written one row per maximal stretch
\* of calls whose keys are equal under the comparator; in AND mode a right
\* row whose key equals a left key under the comparator, with a greater
\* left key still to come, has been handed over.
C20_ComparatorEquality ==
    pc = "done"
    => /\ (merge_strategy = Or /\ deduplicate_strategy = "Reduce")
          => Len(output) = Cardinality(ComparatorRunStarts(added))
       /\ merge_strategy = And
          => \A j \in 1..Len(right_file) :
                (/\ InLeft(RightKeyAt(j))
                 /\ \E i \in 1..Len(left_file) :
                       compare(LeftKeyAt(i), RightKeyAt(j)) = "Greater")
                => Handed(added, Right, j) = 1

-----------------------------------------------------------------------------
(* C21-C30.                                                                *)

\* A second Merger over the same two files with left and right exchanged
\* (both key names are "key"); the output of the first run is kept.
Rerun ==
    /\ pc = "done"
    /\ previous_output = None
    /\ previous_output' = Some([ headers |-> output_headers, rows |-> output ])
    /\ left_file' = right_file
    /\ right_file' = left_file
    /\ left_names' = right_names
    /\ right_names' = left_names
    /\ left_pos' = 0
    /\ right_pos' = 0
    /\ left_line' = None
    /\ right_line' = None
    /\ old_left_value' = None
    /\ left_readed' = TRUE
    /\ right_readed' = TRUE
    /\ deduplicate_handler' = HandlerInit(deduplicate_strategy)
    /\ readers_open' = FALSE
    /\ output_file' = "absent"
    /\ output' = << >>
    /\ added' = << >>
    /\ pc' = "created"
    /\ UNCHANGED << merge_strategy, deduplicate_strategy, number_key,
                    output_header_callback, transform, path, saved >>

NextSwap == Next \/ Rerun

SpecSwap ==
    InitMerge({ Or }, { "KeepAll", "KeepFirst" }, { FALSE }, RightLayouts)
    /\ [][NextSwap]_vars

\* A written row read as a map from column name to field content.
AsMap(headers, row) ==
    [ n \in { headers[i] : i \in 1..Len(headers) } |->
        row[CHOOSE i \in 1..Len(headers) : headers[i] = n] ]

AsMaps(headers, rows) == { AsMap(headers, rows[i]) : i \in 1..Len(rows) }

SameRowsSwapped ==
    (pc = "done" /\ previous_output # None)
        => AsMaps(previous_output[1].headers, previous_output[1].rows)
           = AsMaps(output_headers, output)

RenameBtoKey == Some([ h \in HeaderNames |-> IF h = "B" THEN Some("key") ELSE Some(h) ])
KeyCallbacks == { None, Drop({ "key" }), RenameBtoKey }

InitKeyLookup ==
    /\ merge_strategy \in MergeStrategy
    /\ deduplicate_strategy = "KeepAll"
    /\ number_key = FALSE
    /\ output_header_callback \in KeyCallbacks
    /\ left_names \in { << "key", "A" >>, << "B", "A" >> }
    /\ right_names \in { << "key", "B" >>, << "A", "B" >> }
    /\ left_file \in FilesOver(left_names)
    /\ right_file \in FilesOver(right_names)
    /\ SortedIfKeyed(left_names, left_file)
    /\ SortedIfKeyed(right_names, right_file)
    /\ InitDriver("created")

SpecKeyLookup == InitKeyLookup /\ [][Next]_vars

\* The key name is among the names the callback returns for the header row.
KeyAfterCallback(names, key) ==
    \E i \in 1..Len(names) : format_header(names[i]) = Some(key)

\* C22: the key column of a side is looked up among the header names the
\* callback returns: the run fails for a missing key column exactly when the
\* key name is absent from the callback's result for a side, so a key name
\* that only the callback produces is found.
C22_KeyLookedUpAfterCallback ==
    pc # "created"
        => (pc = "panic" <=> ~(/\ KeyAfterCallback(left_names, left_key)
                               /\ KeyAfterCallback(right_names, right_key)))

\* "2", "3" and "a": the last one does not parse as an integer.
ParseKeys == { << 2 >>, << 3 >>, << 10 >> }
ParseRows == { << k, v >> : k \in ParseKeys, v \in Vals }

\* The sorting precondition on the rows whose key is a number.
SortedWhereParsed(file, key_index) ==
    \A i \in 1..Len(file) : \A j \in i..Len(file) :
        (Parses(file[i][key_index]) /\ Parses(file[j][key_index]))
            => is_le(compare(file[i][key_index], file[j][key_index]))

InitUnparsable ==
    /\ merge_strategy \in MergeStrategy
    /\ deduplicate_strategy = "KeepAll"
    /\ number_key = TRUE
    /\ output_header_callback = None
    /\ left_names = << "key", "A" >>
    /\ right_names = << "key", "B" >>
    /\ left_file \in SeqsUpTo(ParseRows, MaxLeft)
    /\ right_file \in SeqsUpTo(ParseRows, MaxRight)
    /\ SortedWhereParsed(left_file, left_key_index)
    /\ SortedWhereParsed(right_file, right_key_index)
    /\ InitDriver("created")

SpecUnparsable == InitUnparsable /\ [][Next]_vars

AllKeysParse ==
    /\ \A i \in 1..Len(left_file) : Parses(LeftKeyAt(i))
    /\ \A j \in 1..Len(right_file) : Parses(RightKeyAt(j))

\* C23: with is_number_key set, a run over inputs in which the key of some
\* data row does not parse as an integer never ends in success, wherever
\* the row lies.
C23_UnparsableKeyNeverSucceeds ==
    (number_key /\ pc = "done") => AllKeysParse

-----------------------------------------------------------------------------
(* Transform (transform.rs): the filter utility.                           *)

FieldType == { "Number", "String" }
Comparison == { "Eq", "Lt", "Le", "Gt", "Ge" }

Filter_create(field, value, field_type, comparison) ==
    [ index |-> None, field |-> field, field_type |-> field_type,
      comparison |-> comparison, value |-> value ]

\* Filter::clone, as add_filter stores the filter: the index is not copied.
Filter_clone(filter) == [ filter EXCEPT !.index = None ]

Transform_format_header(t, header) ==
    IF t.columns_transform # None THEN t.columns_transform[1][header]
    ELSE Some(header)

\* headers.iter().position(..): the first column of that name.
position(headers, field) ==
    LET hits == { i \in 1..Len(headers) : headers[i] = field }
    IN  IF hits = {} THEN None
        ELSE Some(CHOOSE i \in hits : \A j \in hits : i <= j)

\* parse_filters: the indices are set filter by filter up to the first
\* filter whose field is no header.
RECURSIVE parse_filters(_, _)
parse_filters(filters, headers) ==
    IF filters = << >> THEN [ ok |-> TRUE, filters |-> << >> ]
    ELSE IF position(headers, Head(filters).field) = None
    THEN [ ok |-> FALSE, filters |-> filters ]
    ELSE [ ok |-> parse_filters(Tail(filters), headers).ok,
           filters |-> << [ Head(filters) EXCEPT
                              !.index = position(headers, Head(filters).field) ] >>
                       \o parse_filters(Tail(filters), headers).filters ]

\* The match on filter.comparison.
matches(comparison, cmp) ==
    CASE comparison = "Eq" -> cmp = "Equal"
      [] comparison = "Lt" -> cmp = "Less"
      [] comparison = "Le" -> cmp \in { "Less", "Equal" }
      [] comparison = "Gt" -> cmp = "Greater"
      [] comparison = "Ge" -> cmp \in { "Greater", "Equal" }

\* parse::<i64>().unwrap() of the filter value or of the field.
test_panics(filter, record) ==
    /\ filter.field_type = "Number"
    /\ ~(Parses(filter.value) /\ Parses(record[filter.index[1]]))

\* Variant: a Number filter compares the two strings.
test_filter_AsString(filter, record) ==
    matches(filter.comparison, BytesCmp(record[filter.index[1]], filter.value))

test_filter(filter, record) ==
    matches(filter.comparison,
            IF filter.field_type = "Number"
            THEN IntCmp(to_number(record[filter.index[1]]), to_number(filter.value))
            ELSE BytesCmp(record[filter.index[1]], filter.value))

\* filters.iter().all(..): "true", "false", or "panic" when an unwrap fails
\* before a filter has answered false.
RECURSIVE test_record(_, _)
test_record(filters, record) ==
    IF filters = << >> THEN "true"
    ELSE IF Head(filters).index = None THEN test_record(Tail(filters), record)
    ELSE IF test_panics(Head(filters), record) THEN "panic"
    ELSE IF ~test_filter(Head(filters), record) THEN "false"
    ELSE test_record(Tail(filters), record)

\* line.to_string()
RECURSIVE to_string(_)
to_string(n) == IF n < 10 THEN << n >> ELSE to_string(n \div 10) \o << n % 10 >>

RECURSIVE KeptFields(_, _)
KeptFields(headers, record) ==
    IF record = << >> THEN << >>
    ELSE (IF Head(headers) # None THEN << Head(record) >> ELSE << >>)
         \o KeptFields(Tail(headers), Tail(record))

\* The record as it is written, lines 197-215.
written_record(t, headers, record, line) ==
    (IF t.columns_transform # None /\ \E i \in 1..Len(headers) : headers[i] = None
     THEN KeptFields(headers, record) ELSE record)
    \o (IF t.append_line_number THEN << to_string(line) >> ELSE << >>)

write_headers(t, headers) ==
    SomeOnly(headers)
    \o (IF t.append_line_number THEN << "__line_number" >> ELSE << >>)

\* The loop over reader.byte_records() from data row `line` on, lines 192-220.
RECURSIVE byte_records(_, _, _, _)
byte_records(t, headers, line, out) ==
    IF line > Len(path.rows) THEN [ rows |-> out, pc |-> "saved" ]
    ELSE IF path.rows[line] = Rejected THEN [ rows |-> out, pc |-> "failed" ]
    ELSE IF test_record(t.filters, path.rows[line]) = "panic"
    THEN [ rows |-> out, pc |-> "panic" ]
    ELSE byte_records(t, headers, line + 1,
                      IF test_record(t.filters, path.rows[line]) = "true"
                      THEN Append(out, written_record(t, headers, path.rows[line], line))
                      ELSE out)

\* Lines 164-178: the header row with the callback applied, if there is one.
transform_headers(t) ==
    [ i \in 1..Len(path.names) |-> Transform_format_header(t, path.names[i]) ]

save_rows(t, headers) ==
    [ transform |-> t,
      saved |-> Some([ names |-> write_headers(t, headers),
                       rows |-> byte_records(t, headers, 1, << >>).rows ]),
      pc |-> byte_records(t, headers, 1, << >>).pc ]

\* Transform::save_to, lines 153-227.
save_to(t) ==
    IF is_empty_file(path.names, path.rows)
    THEN [ transform |-> t, saved |-> Some([ names |-> << >>, rows |-> << >> ]),
           pc |-> "saved" ]
    ELSE IF ~parse_filters(t.filters, path.names).ok
    THEN [ transform |-> [ t EXCEPT !.filters = parse_filters(@, path.names).filters ],
           saved |-> None, pc |-> "failed" ]
    ELSE save_rows([ t EXCEPT !.filters = parse_filters(@, path.names).filters ],
                   transform_headers(t))

\* "2", "10" and "a": as numbers 2 < 10, as strings "10" < "2" < "a", and
\* "a" is no number.
TransformKeys == { << 2 >>, << 1, 0 >>, << 10 >> }
TransformRows == { << << 5 >>, k >> : k \in TransformKeys }
TransformFilters ==
    { Filter_create("key", << 2 >>, ft, c) : ft \in FieldType, c \in Comparison }
    \cup { Filter_create("C", << 2 >>, "String", "Eq") }

\* Transform::new on a file of at most MaxLeft data rows, or of zero bytes.
InitTransform ==
    /\ merge_strategy = Or
    /\ deduplicate_strategy = "KeepAll"
    /\ number_key = FALSE
    /\ output_header_callback = None
    /\ left_names = << >>
    /\ right_names = << >>
    /\ left_file = << >>
    /\ right_file = << >>
    /\ InitRun("transform")
    /\ transform = Transform_new
    /\ path \in { [ names |-> << "B", "key" >>, rows |-> rows ] :
                    rows \in SeqsUpTo(TransformRows, MaxLeft) }
                \cup { [ names |-> << >>, rows |-> << >> ] }
    /\ saved = None

TransformUnchanged ==
    UNCHANGED << merge_strategy, deduplicate_strategy, number_key,
                 output_header_callback, left_file, right_file, left_names,
                 right_names, left_pos, right_pos, left_line, right_line,
                 old_left_value, left_readed, right_readed, deduplicate_handler,
                 readers_open, output_file, output, added, previous_output, path >>

AddFilter ==
    /\ pc = "transform"
    /\ Len(transform.filters) < MaxFilters
    /\ \E filter \in TransformFilters :
          transform' = [ transform EXCEPT !.filters = Append(@, Filter_clone(filter)) ]
    /\ UNCHANGED << saved, pc >>
    /\ TransformUnchanged

AppendLineNumber ==
    /\ pc = "transform"
    /\ transform' = [ transform EXCEPT !.append_line_number = TRUE ]
    /\ UNCHANGED << saved, pc >>
    /\ TransformUnchanged

SetColumnsTransform ==
    /\ pc = "transform"
    /\ \E func \in { Drop({ "B" }), RenameBtoA } :
          transform' = [ transform EXCEPT !.columns_transform = func ]
    /\ UNCHANGED << saved, pc >>
    /\ TransformUnchanged

SaveTo ==
    /\ pc = "transform"
    /\ transform' = save_to(transform).transform
    /\ saved' = save_to(transform).saved
    /\ pc' = save_to(transform).pc
    /\ TransformUnchanged

NextTransform == AddFilter \/ AppendLineNumber \/ SetColumnsTransform \/ SaveTo

SpecTransform == InitTransform /\ [][NextTransform]_vars

\* A filter holds for a data row: the field under the first header of the
\* filter's name compares with the filter's value as the filter says, as
\* signed integers for a Number filter and as strings otherwise.
Satisfies(filter, row) ==
    LET field == row[CHOOSE i \in 1..Len(path.names) :
                        /\ path.names[i] = filter.field
                        /\ \A j \in 1..(i - 1) : path.names[j] # filter.field]
        order == IF filter.field_type = "Number"
                 THEN IntCmp(to_number(field), to_number(filter.value))
                 ELSE BytesCmp(field, filter.value)
    IN  CASE filter.comparison = "Eq" -> order = "Equal"
          [] filter.comparison = "Lt" -> order = "Less"
          [] filter.comparison = "Le" -> order # "Greater"
          [] filter.comparison = "Gt" -> order = "Greater"
          [] filter.comparison = "Ge" -> order # "Less"

RECURSIVE Passing(_)
Passing(rows) ==
    IF rows = << >> THEN << >>
    ELSE (IF \A f \in 1..Len(transform.filters) :
                Satisfies(transform.filters[f], Head(rows))
          THEN << Head(rows) >> ELSE << >>)
         \o Passing(Tail(rows))

PassingRows == Passing(path.rows)

HeaderAndPassingRows ==
    pc = "saved" => saved = Some([ names |-> path.names, rows |-> PassingRows ])

\* C24: a save_to that succeeds has written the header row of the input
\* unchanged and then exactly the data rows for which every added filter
\* holds, in input order.
C24_SavedHeaderAndFiltered == HeaderAndPassingRows

\* C24, amended: the same for a Transform without a columns callback and
\* without line numbers.
C24_SavedFilteredByDefault ==
    (transform.columns_transform = None /\ ~transform.append_line_number)
        => HeaderAndPassingRows

C24_Witness ==
    /\ pc = "saved"
    /\ transform.columns_transform = None
    /\ ~transform.append_line_number
    /\ Len(transform.filters) = 2
    /\ transform.filters[1].field_type = "Number"
    /\ transform.filters[1].comparison # transform.filters[2].comparison
    /\ Len(path.rows) = 2
    /\ Len(saved[1].rows) = 1

-----------------------------------------------------------------------------
(* The buffering handlers under any sequence of add_row and flush calls.   *)

BufferingRows == { << k, v >> : k \in DedupKeys, v \in Vals }
Buffering == { "RemoveSimilar", "Reduce", "CrossJoin", "CrossJoinAndRemoveSimilar" }
RunBuffering == Buffering \ { "Reduce" }

AddCall ==
    /\ pc = "adding"
    /\ Len(added) < MaxAdds
    /\ \E row \in BufferingRows, side \in { Left, Right } :
          Apply(Hand(Cur, [ record |-> row, key |-> KeyOf(row, side) ], side,
                     Len(added) + 1))

\* flush() with the handler used further; the call is entered in the
\* history with the side "Flush".
flush_call(st, f) ==
    [ st EXCEPT !.deduplicate_handler = f.h,
                !.output = f.w,
                !.added = Append(@, [ side |-> "Flush", idx |-> Len(@) + 1,
                                      record |-> << >>, key |-> << >> ]) ]

FlushCall ==
    /\ pc = "adding"
    /\ Len(added) < MaxAdds
    /\ Apply(flush_call(Cur, flush(deduplicate_strategy, deduplicate_handler, output)))

NextCalls == AddCall \/ FlushCall

SpecCalls == InitDedup(Buffering) /\ [][NextCalls]_vars

\* The rows a handler holds back: Reduce's group or the duplicates.
RECURSIVE Firsts(_)
Firsts(pairs) ==
    IF pairs = << >> THEN << >> ELSE << Head(pairs)[1] >> \o Firsts(Tail(pairs))

Buffered(strategy, h) ==
    CASE strategy = "Reduce" -> IF h.group = None THEN << >> ELSE Firsts(h.group[1])
      [] strategy = "RemoveSimilar" -> h.duplicates
      [] OTHER -> Firsts(h.duplicates)

LastCall == added[Len(added)]

\* C25: in RemoveSimilar, CrossJoin and CrossJoinAndRemoveSimilar every
\* add_row call appends the incoming row to the buffer and makes it the
\* look-behind, whatever the look-behind and the buffer were before; no
\* added row is dropped.
C25_AddAlwaysAppends ==
    (deduplicate_strategy \in RunBuffering /\ added # << >> /\ LastCall.side # "Flush")
        => /\ Buffered(deduplicate_strategy, deduplicate_handler) # << >>
           /\ Buffered(deduplicate_strategy, deduplicate_handler)
                  [Len(Buffered(deduplicate_strategy, deduplicate_handler))]
              = LastCall.record
           /\ deduplicate_handler.last_row = Some(<< LastCall.record, LastCall.side >>)

\* The reference handler: an add closes the run when the buffer is non-empty
\* and the incoming key differs from the buffered key, and then appends the
\* incoming row; a run is written as the handler's flush_duplicates writes
\* it. x.key is the key of the buffered rows.
Reference_close(strategy, x, key) ==
    IF Len(x.h.duplicates) > 0 /\ x.key # key
    THEN flush(strategy, x.h, x.w)
    ELSE [ h |-> x.h, w |-> x.w ]

Reference_append(strategy, x, call) ==
    [ h |-> [ x.h EXCEPT !.duplicates =
                  Append(@, IF strategy = "RemoveSimilar" THEN call.record
                            ELSE << call.record, call.side >>) ],
      w |-> x.w,
      key |-> call.key ]

Reference_flush(strategy, x) ==
    [ h |-> flush(strategy, x.h, x.w).h, w |-> flush(strategy, x.h, x.w).w,
      key |-> x.key ]

Reference_call(strategy, x, call) ==
    IF call.side = "Flush" THEN Reference_flush(strategy, x)
    ELSE Reference_append(strategy, Reference_close(strategy, x, call.key), call)

\* The reference handler after the first n calls of the history.
RECURSIVE Reference(_, _, _)
Reference(strategy, calls, n) ==
    IF n = 0 THEN [ h |-> HandlerInit(strategy), w |-> << >>, key |-> << >> ]
    ELSE Reference_call(strategy, Reference(strategy, calls, n - 1), calls[n])

\* C26: after every sequence of add_row and flush calls RemoveSimilar,
\* CrossJoin and CrossJoinAndRemoveSimilar have written the same rows in the
\* same order as the reference handler.
C26_WritesAsReference ==
    deduplicate_strategy \in RunBuffering
        => output = Reference(deduplicate_strategy, added, Len(added)).w

\* The keys of the rows held back (in SpecCalls the key is the first column
\* on both sides).
BufferedKeys(strategy, h) ==
    { KeyOf(Buffered(strategy, h)[i], Left) : i \in 1..Len(Buffered(strategy, h)) }

BufferHoldsOneRun ==
    Cardinality(BufferedKeys(deduplicate_strategy, deduplicate_handler)) <= 1

\* The buffer after the step continues the buffer before it.
BufferGrows(before, after) ==
    Len(after) >= Len(before) /\ SubSeq(after, 1, Len(before)) = before

\* A step that takes rows out of the buffer writes the whole buffer, as
\* flush writes it, and leaves at most the incoming row buffered.
BufferLeftByWriting ==
    ~BufferGrows(Buffered(deduplicate_strategy, deduplicate_handler),
                 Buffered(deduplicate_strategy, deduplicate_handler)')
        => /\ output' = flush(deduplicate_strategy, deduplicate_handler, output).w
           /\ Len(output') > Len(output)
           /\ Len(Buffered(deduplicate_strategy, deduplicate_handler)') <= 1

\* C27: in every reachable state of RemoveSimilar, Reduce, CrossJoin and
\* CrossJoinAndRemoveSimilar the buffered rows have pairwise equal keys, and
\* the rows of a run are written when the run is closed, before a row of
\* the next run is buffered.
C27_OneOpenRun == []BufferHoldsOneRun /\ [][BufferLeftByWriting]_vars

C27_Witness ==
    /\ Len(Buffered(deduplicate_strategy, deduplicate_handler)) >= 2
    /\ output # << >>
    /\ \A n \in 1..Len(added) : added[n].side # "Flush"
    /\ added[1].key # LastCall.key

-----------------------------------------------------------------------------
(* The two cursors of the main loop.                                       *)

CursorRows == { << k, << >> >> : k \in Keys }

\* A file of zero bytes has no header row and no data row.
CursorFiles(names, n) ==
    IF names = << >> THEN { << >> } ELSE SeqsUpTo(CursorRows, n)

InitCursors ==
    /\ merge_strategy \in MergeStrategy
    /\ deduplicate_strategy = "KeepAll"
    /\ number_key \in BOOLEAN
    /\ output_header_callback = None
    /\ left_names \in { << >>, << "key", "A" >> }
    /\ right_names \in { << >>, << "key", "B" >> }
    /\ left_file \in CursorFiles(left_names, MaxLeft)
    /\ right_file \in CursorFiles(right_names, MaxRight)
    /\ SortedIfKeyed(left_names, left_file)
    /\ SortedIfKeyed(right_names, right_file)
    /\ InitDriver("created")

SpecCursors == InitCursors /\ [][Next]_vars

\* The step reads the next record of a side: its head changes, or its
\* position does.
LeftAdvances == << left_line, left_pos >>' # << left_line, left_pos >>
RightAdvances == << right_line, right_pos >>' # << right_line, right_pos >>

\* The state is at the head of a main-loop iteration in which
\* need_read_left comes out true.
NeedReadLeftHolds ==
    /\ pc = "main"
    /\ need_read_left(old_left_value, right_line[1].key,
                      compare(left_line[1].key, right_line[1].key))

\* C28: an iteration of the main loop in which need_read_left holds ends
\* with the Left cursor advanced.
C28_NeedReadLeftAdvancesLeft ==
    [][NeedReadLeftHolds => (LeftAdvances /\ ~RightAdvances)]_vars

\* C28, amended: such an iteration ends with the Right cursor advanced and
\* the left head kept.
C28_NeedReadLeftAdvancesRight ==
    [][NeedReadLeftHolds => (RightAdvances /\ ~LeftAdvances)]_vars

C28_Witness ==
    /\ NeedReadLeftHolds
    /\ right_pos >= 2
    /\ added # << >>

\* What is left to do: the records not yet read, the heads not yet passed,
\* and the stages of handle still ahead.
Remaining ==
    (Len(left_file) - left_pos) + (Len(right_file) - right_pos)
    + (IF left_line # None THEN 1 ELSE 0) + (IF right_line # None THEN 1 ELSE 0)
    + (CASE pc = "created" -> 3
         [] pc \in { "main", "drain_left", "drain_right" } -> 2
         [] pc = "flush" -> 1
         [] OTHER -> 0)

\* Every step brings the run nearer to its end, so no run goes on for ever.
Terminates == Remaining' < Remaining

\* An iteration of the main loop advances the Left cursor if cmp <= Equal and
\* need_read_left is false, otherwise the Right cursor, and keeps the other
\* head.
MainAdvancesOne ==
    pc = "main"
        => IF /\ is_le(compare(left_line[1].key, right_line[1].key))
              /\ ~need_read_left(old_left_value, right_line[1].key,
                                 compare(left_line[1].key, right_line[1].key))
           THEN LeftAdvances /\ ~RightAdvances
           ELSE RightAdvances /\ ~LeftAdvances

DrainAdvances ==
    /\ pc = "drain_left" => (LeftAdvances /\ ~RightAdvances)
    /\ pc = "drain_right" => (RightAdvances /\ ~LeftAdvances)

\* flush is the last call on the handler: the step at "flush" writes what
\* flush writes, hands no row over and ends the run, and nothing follows.
FlushEndsRun ==
    /\ pc = "flush"
          => /\ pc' = "done"
             /\ added' = added
             /\ output' = flush(deduplicate_strategy, deduplicate_handler, output).w
    /\ pc # "done"

\* The run is ended by the flush step and by nothing else.
EndsByFlushOnly == pc' = "done" => pc = "flush"

\* The run is ended by the flush step, or at once by a zero-byte input.
EndsByFlushOrShortcut ==
    pc' = "done" => (pc = "flush" \/ (pc = "created" /\ ZeroBytes))

RunsWritten(log) ==
    IF pc = "done" THEN RunStarts(log) ELSE RunStarts(log) \ { Len(log) }

\* C30: with KeepFirst, for any sequence of add_row calls followed by flush,
\* one row is written per maximal run of equal keys, the first of the run
\* in arrival order, and the rows are written in run order; while the rows
\* arrive, the first row of a run is written when its second row or the
\* next run arrives.
C30_KeepFirstRunHeads ==
    deduplicate_strategy = "KeepFirst"
        => output = RecordsOf(added, RunsWritten(added))

\* Two runs of two rows each, the rows of a run differing, flushed.
C30_Witness ==
    /\ pc = "done"
    /\ deduplicate_strategy = "KeepFirst"
    /\ Len(added) = 4
    /\ RunStarts(added) = { 1, 3 }
    /\ added[1].record # added[2].record
    /\ added[3].record # added[4].record
    /\ Len(output) = 2

-----------------------------------------------------------------------------
(* C31-C34.                                                                *)

\* The keys of the calls i < j of the history are in comparator order.
InOrder(log, i, j) ==
    /\ ~ComparePanics(log[i].key, log[j].key)
    /\ is_le(compare(log[i].key, log[j].key))

\* C31: in every merge mode, for inputs sorted by key, the keys of the rows
\* handed to the dedup handler are non-decreasing under the active
\* comparator: the rows of one key are handed over in one stretch.
C31_HandedInKeyOrder ==
    \A i \in 1..Len(added) : \A j \in i..Len(added) : InOrder(added, i, j)

\* Rows of both sides and of two keys have been handed over, a key of the
\* one side between keys of the other.
C31_Witness ==
    /\ pc = "done"
    /\ Len(added) >= 3
    /\ \E i \in 1..Len(added) : \E j \in (i + 1)..Len(added) :
          /\ added[i].side = Right
          /\ added[j].side = Left
          /\ ~KeyEq(added[i].key, added[j].key)
    /\ \E i \in 1..Len(added) : \E j \in (i + 1)..Len(added) :
          /\ added[i].side = Left
          /\ added[j].side = Right

\* The buffered entries as flush_duplicates sorts and dedups them with
\* remove_similar set, lines 282-285.
SimilarRemoved(h) == dedup(sort_entries(h.duplicates))

NoRowTwice(records) ==
    \A i \in 1..Len(records) : \A j \in 1..Len(records) :
        records[i] = records[j] => i = j

\* C32: with CrossJoinAndRemoveSimilar, after the remove-similar step of a
\* run close neither the Left rows nor the Right rows of the buffer hold
\* two byte-equal rows, in whatever order the sides arrived.
C32_NoRepeatedRowPerSide ==
    deduplicate_strategy = "CrossJoinAndRemoveSimilar"
        => /\ NoRowTwice(SelectSide(SimilarRemoved(deduplicate_handler), Left))
           /\ NoRowTwice(SelectSide(SimilarRemoved(deduplicate_handler), Right))

\* The comparison of the two heads at the start of a main-loop iteration.
HeadsCmp == compare(left_line[1].key, right_line[1].key)

\* The iteration as handle runs it, and as a driver would run it that takes
\* need_read_left for false.
IterationAsIs ==
    main_loop_body(merge_strategy, Cur, HeadsCmp,
                   old_left_eq_right(old_left_value, right_line[1].key),
                   need_read_left(old_left_value, right_line[1].key, HeadsCmp))

IterationWithoutNeedReadLeft ==
    main_loop_body(merge_strategy, Cur, HeadsCmp,
                   old_left_eq_right(old_left_value, right_line[1].key), FALSE)

\* C33: for inputs sorted by key, need_read_left implies cmp = Greater in
\* every main-loop iteration, so a driver without need_read_left hands over
\* and advances as handle does, in all three modes.
C33_NeedReadLeftOnlyOnGreater ==
    pc = "main"
        => /\ need_read_left(old_left_value, right_line[1].key, HeadsCmp)
                 => HeadsCmp = "Greater"
           /\ IterationWithoutNeedReadLeft = IterationAsIs

\* need_read_left holds with numeric keys, the left head past the key it
\* has advanced past.
C33_Witness ==
    /\ NeedReadLeftHolds
    /\ number_key
    /\ HeadsCmp = "Greater"
    /\ old_left_value # Some(left_line[1].key)

\* This step hands a left row over.
HandsLeftRow ==
    /\ Len(added') = Len(added) + 1
    /\ added'[Len(added')].side = Left

\* C34: left_readed is true at the start of every main-loop iteration and of
\* every left-drain step, and in every mode a step that hands a left row
\* over advances the left cursor past it.
C34_LeftHeadAlwaysFresh ==
    /\ [](pc \in { "main", "drain_left" } => left_readed)
    /\ [][HandsLeftRow => LeftAdvances]_vars

\* A main-loop iteration starts after a left row was handed over, with the
\* right head handed over already and the left head fresh.
C34_Witness ==
    /\ pc = "main"
    /\ left_readed
    /\ ~right_readed
    /\ \E i \in 1..Len(added) : added[i].side = Left

=============================================================================
